---- MODULE Spec2Model ----
(***************************************************************************)
(* Model of csv_json_validator (src/main.py).                              *)
(*                                                                         *)
(* Text is a sequence of symbols.  A symbol is one character ("[", "'",    *)
(* "1", "x", " ", ...) or one reserved word ("true", "null", "None"); a    *)
(* run of adjacent word symbols lexes as one word, as adjacent characters  *)
(* do in the real lexers.                                                  *)
(*                                                                         *)
(* Two specifications:                                                     *)
(*   SpecV : is_valid_json applied to every short text                     *)
(*   Spec  : main / validate_csv_json_field over small files               *)
(***************************************************************************)
EXTENDS Integers, Sequences, FiniteSets, TLC

(* ---------------------------------------------------------------- bounds *)
MaxLen == 3
MaxRows == 2

(* --------------------------------------------------------------- symbols *)
SQ == "'"
DQ == "\""
EscDQ == "\\\""
SP == " "

Punct == {"[", "]", "{", "}", ",", ":"}
WordSyms == {"1", "x", "true", "null", "None"}
Alphabet == {SQ, DQ, "[", "]", "{", "}", ",", ":", SP, "1", "x", "true", "None"}

(* ------------------------------------------------------- python values   *)
(* every value / syntax node has the same three fields                     *)
Node(k, s, items) == [k |-> k, s |-> s, items |-> items]
NoNode == Node("none", <<>>, <<>>)

(* an Optional[str]: the value of row[field_name] *)
PyNone == [none |-> TRUE, s |-> <<>>]
PyStr(s) == [none |-> FALSE, s |-> s]

(* ------------------------------------------------------ exception classes *)
Parent(c) ==
  CASE c = "JSONDecodeError" -> "ValueError"
    [] c = "UnicodeDecodeError" -> "ValueError"
    [] c = "FileNotFoundError" -> "OSError"
    [] c = "PermissionError" -> "OSError"
    [] c = "SystemExit" -> "BaseException"
    [] c = "Exception" -> "BaseException"
    [] c = "BaseException" -> "BaseException"
    [] OTHER -> "Exception"

RECURSIVE IsSubclass(_, _)
IsSubclass(c, d) ==
  IF c = d THEN TRUE
  ELSE IF c = "BaseException" THEN FALSE
  ELSE IsSubclass(Parent(c), d)

(* index in 1..Len(clauses) of the first except clause that catches exc,   *)
(* 0 when none does; a clause is a set of classes                          *)
FirstHandler(exc, clauses) ==
  LET hits == {n \in 1..Len(clauses) : \E c \in clauses[n] : IsSubclass(exc, c)}
  IN IF hits = {} THEN 0 ELSE CHOOSE n \in hits : \A m \in hits : n <= m

(* ------------------------------------------------------------ str.strip  *)
RECURSIVE LStrip(_)
LStrip(s) == IF s # <<>> /\ Head(s) = SP THEN LStrip(Tail(s)) ELSE s

RECURSIVE RStrip(_)
RStrip(s) ==
  IF s # <<>> /\ s[Len(s)] = SP THEN RStrip(SubSeq(s, 1, Len(s) - 1)) ELSE s

Strip(s) == RStrip(LStrip(s))

(* ----------------------------------------------------------------- lexer *)
Tok(t, s) == [t |-> t, s |-> s]
ErrTok == Tok("err", <<>>)

(* first index >= i holding the quote q, 0 when the string is unterminated *)
RECURSIVE CloseQuote(_, _, _)
CloseQuote(s, i, q) ==
  IF i > Len(s) THEN 0
  ELSE IF s[i] = q THEN i
  ELSE CloseQuote(s, i + 1, q)

(* last index of the run of word symbols that starts at i *)
RECURSIVE WordEnd(_, _)
WordEnd(s, i) ==
  IF i + 1 <= Len(s) /\ s[i + 1] \in WordSyms THEN WordEnd(s, i + 1) ELSE i

Unescape(s) == [n \in 1..Len(s) |-> IF s[n] = EscDQ THEN DQ ELSE s[n]]
Escape(s) == [n \in 1..Len(s) |-> IF s[n] = DQ THEN EscDQ ELSE s[n]]

WordTok(w) ==
  IF \A n \in 1..Len(w) : w[n] = "1" THEN Tok("num", w)
  ELSE IF w[1] = "1" THEN ErrTok
  ELSE Tok("name", w)

(* first index >= i where the closing triple quote qqq starts, 0 when none *)
RECURSIVE CloseTriple(_, _, _)
CloseTriple(s, i, q) ==
  IF i + 2 > Len(s) THEN 0
  ELSE IF s[i] = q /\ s[i + 1] = q /\ s[i + 2] = q THEN i
  ELSE CloseTriple(s, i + 1, q)

(* tokens of s from index i on; quotes are the characters that open a      *)
(* string literal, triple says whether qqq opens a triple-quoted one.  The *)
(* token stream ends with ErrTok at the first lexical error.               *)
RECURSIVE Lex(_, _, _, _)
Lex(s, i, quotes, triple) ==
  IF i > Len(s) THEN <<>>
  ELSE IF s[i] = SP THEN Lex(s, i + 1, quotes, triple)
  ELSE IF s[i] \in quotes THEN
    IF triple /\ i + 2 <= Len(s) /\ s[i + 1] = s[i] /\ s[i + 2] = s[i] THEN
      LET j == CloseTriple(s, i + 3, s[i])
      IN IF j = 0 THEN <<ErrTok>>
         ELSE <<Tok("str", Unescape(SubSeq(s, i + 3, j - 1)))>> \o Lex(s, j + 3, quotes, triple)
    ELSE
      LET j == CloseQuote(s, i + 1, s[i])
      IN IF j = 0 THEN <<ErrTok>>
         ELSE <<Tok("str", Unescape(SubSeq(s, i + 1, j - 1)))>> \o Lex(s, j + 1, quotes, triple)
  ELSE IF s[i] \in Punct THEN <<Tok("punct", <<s[i]>>)>> \o Lex(s, i + 1, quotes, triple)
  ELSE IF s[i] \in WordSyms THEN
    LET j == WordEnd(s, i)
        t == WordTok(SubSeq(s, i, j))
    IN IF t = ErrTok THEN <<ErrTok>> ELSE <<t>> \o Lex(s, j + 1, quotes, triple)
  ELSE <<ErrTok>>

IsPunct(toks, i, c) == i <= Len(toks) /\ toks[i] = Tok("punct", <<c>>)

(* calls between the parsing and serializing routines go through Call *)
RECURSIVE Call(_, _)

(* ------------------------------------------------ ast.parse(mode='eval') *)
PRes(ok, v, i) == [ok |-> ok, v |-> v, i |-> i]
PFail == PRes(FALSE, NoNode, 0)

(* adjacent string literals are concatenated *)
RECURSIVE PyStrings(_, _, _)
PyStrings(toks, i, acc) ==
  IF i <= Len(toks) /\ toks[i].t = "str"
  THEN PyStrings(toks, i + 1, acc \o toks[i].s)
  ELSE PRes(TRUE, Node("str", acc, <<>>), i)


(* expr ("," expr)* [","] close  -- entered with i at the first expr or at *)
(* close; close = "" stands for the end of the text                        *)
PyElems(toks, i, close, acc) ==
  IF close = "" /\ i > Len(toks) THEN PRes(TRUE, Node("seq", <<>>, acc), i)
  ELSE IF close # "" /\ IsPunct(toks, i, close) THEN PRes(TRUE, Node("seq", <<>>, acc), i + 1)
  ELSE
    LET e == Call("PyExpr", <<toks, i>>)
    IN IF ~e.ok THEN PFail
       ELSE IF IsPunct(toks, e.i, ",") THEN Call("PyElems", <<toks, e.i + 1, close, Append(acc, e.v)>>)
       ELSE IF close = "" /\ e.i > Len(toks) THEN PRes(TRUE, Node("seq", <<>>, Append(acc, e.v)), e.i)
       ELSE IF close # "" /\ IsPunct(toks, e.i, close) THEN PRes(TRUE, Node("seq", <<>>, Append(acc, e.v)), e.i + 1)
       ELSE PFail

(* key ":" value ("," key ":" value)* [","] "}" *)
PyPairs(toks, i, acc) ==
  IF IsPunct(toks, i, "}") THEN PRes(TRUE, Node("dict", <<>>, acc), i + 1)
  ELSE
    LET k == Call("PyExpr", <<toks, i>>)
    IN IF ~k.ok \/ ~IsPunct(toks, k.i, ":") THEN PFail
       ELSE
         LET v == Call("PyExpr", <<toks, k.i + 1>>)
             pair == Node("pair", <<>>, <<k.v, v.v>>)
         IN IF ~v.ok THEN PFail
            ELSE IF IsPunct(toks, v.i, ",") THEN Call("PyPairs", <<toks, v.i + 1, Append(acc, pair)>>)
            ELSE IF IsPunct(toks, v.i, "}") THEN PRes(TRUE, Node("dict", <<>>, Append(acc, pair)), v.i + 1)
            ELSE PFail

PyExpr(toks, i) ==
  IF i > Len(toks) THEN PFail
  ELSE IF toks[i].t = "str" THEN PyStrings(toks, i, <<>>)
  ELSE IF toks[i].t = "num" THEN PRes(TRUE, Node("int", toks[i].s, <<>>), i + 1)
  ELSE IF toks[i].t = "name" THEN PRes(TRUE, Node("name", toks[i].s, <<>>), i + 1)
  ELSE IF IsPunct(toks, i, "[") THEN
    LET r == Call("PyElems", <<toks, i + 1, "]", <<>>>>)
    IN IF r.ok THEN PRes(TRUE, Node("list", <<>>, r.v.items), r.i) ELSE PFail
  ELSE IF IsPunct(toks, i, "{") THEN
    IF IsPunct(toks, i + 1, "}") THEN PRes(TRUE, Node("dict", <<>>, <<>>), i + 2)
    ELSE
      LET e == Call("PyExpr", <<toks, i + 1>>)
      IN IF ~e.ok THEN PFail
         ELSE IF IsPunct(toks, e.i, ":") THEN Call("PyPairs", <<toks, i + 1, <<>>>>)
         ELSE LET r == Call("PyElems", <<toks, i + 1, "}", <<>>>>)
              IN IF r.ok THEN PRes(TRUE, Node("set", <<>>, r.v.items), r.i) ELSE PFail
  ELSE PFail

(* the whole text as one expression; a top-level comma makes a tuple *)
ast_parse(s) ==
  LET toks == Lex(s, 1, {SQ, DQ}, TRUE)
      e == Call("PyExpr", <<toks, 1>>)
  IN IF ~e.ok THEN PFail
     ELSE IF e.i > Len(toks) THEN e
     ELSE IF IsPunct(toks, e.i, ",") THEN
       LET r == Call("PyElems", <<toks, 1, "", <<>>>>)
       IN IF r.ok THEN PRes(TRUE, Node("tuple", <<>>, r.v.items), r.i) ELSE PFail
     ELSE PFail

(* ------------------------------------------------ ast.literal_eval       *)
CRes(exc, v) == [exc |-> exc, v |-> v]

RECURSIVE Hashable(_)
Hashable(v) ==
  /\ v.k \notin {"list", "set", "dict"}
  /\ \A n \in 1..Len(v.items) : Hashable(v.items[n])

(* dict insertion: an equal key keeps its place and takes the new value *)
DictPut(acc, k, v) ==
  IF \E n \in 1..Len(acc) : acc[n].items[1] = k
  THEN [n \in 1..Len(acc) |->
          IF acc[n].items[1] = k THEN Node("pair", <<>>, <<k, v>>) ELSE acc[n]]
  ELSE Append(acc, Node("pair", <<>>, <<k, v>>))

SetAdd(acc, v) == IF \E n \in 1..Len(acc) : acc[n] = v THEN acc ELSE Append(acc, v)


(* elements are converted left to right; a set hashes each element as soon *)
(* as it is converted                                                      *)
ConvElems(items, n, kind, acc) ==
  IF n > Len(items) THEN CRes("", Node(kind, <<>>, acc))
  ELSE
    LET c == Call("Convert", <<items[n]>>)
    IN IF c.exc # "" THEN c
       ELSE IF kind = "set" /\ ~Hashable(c.v) THEN CRes("TypeError", NoNode)
       ELSE Call("ConvElems", <<items, n + 1, kind,
                      IF kind = "set" THEN SetAdd(acc, c.v) ELSE Append(acc, c.v)>>)

(* zip converts a key and its value before dict hashes the key *)
ConvPairs(items, n, acc) ==
  IF n > Len(items) THEN CRes("", Node("dict", <<>>, acc))
  ELSE
    LET k == Call("Convert", <<items[n].items[1]>>)
        v == Call("Convert", <<items[n].items[2]>>)
    IN IF k.exc # "" THEN k
       ELSE IF v.exc # "" THEN v
       ELSE IF ~Hashable(k.v) THEN CRes("TypeError", NoNode)
       ELSE Call("ConvPairs", <<items, n + 1, DictPut(acc, k.v, v.v)>>)

Convert(node) ==
  CASE node.k \in {"int", "str"} -> CRes("", node)
    [] node.k = "name" ->
         IF node.s = <<"None">> THEN CRes("", Node("const", <<"None">>, <<>>))
         ELSE CRes("ValueError", NoNode)
    [] node.k \in {"list", "tuple", "set"} -> Call("ConvElems", <<node.items, 1, node.k, <<>>>>)
    [] node.k = "dict" -> Call("ConvPairs", <<node.items, 1, <<>>>>)
    [] OTHER -> CRes("ValueError", NoNode)

literal_eval(s) ==
  LET p == Call("ast_parse", <<LStrip(s)>>)
  IN IF ~p.ok THEN CRes("SyntaxError", NoNode) ELSE Call("Convert", <<p.v>>)

(* ------------------------------------------------------------ json.dumps *)
SRes(exc, s) == [exc |-> exc, s |-> s]

DumpKey(k) ==
  CASE k.k = "str" -> SRes("", <<DQ>> \o Escape(k.s) \o <<DQ>>)
    [] k.k = "int" -> SRes("", <<DQ>> \o k.s \o <<DQ>>)
    [] k.k = "const" -> SRes("", <<DQ, "null", DQ>>)
    [] OTHER -> SRes("TypeError", <<>>)


(* items joined with ", "; a pair is written key ": " value *)
DumpItems(items, n, acc) ==
  IF n > Len(items) THEN SRes("", acc)
  ELSE
    LET it == items[n]
        d == IF it.k = "pair"
             THEN LET dk == DumpKey(it.items[1])
                      dv == Call("json_dumps", <<it.items[2]>>)
                  IN IF dk.exc # "" THEN dk
                     ELSE IF dv.exc # "" THEN dv
                     ELSE SRes("", dk.s \o <<":", SP>> \o dv.s)
             ELSE Call("json_dumps", <<it>>)
    IN IF d.exc # "" THEN d
       ELSE Call("DumpItems", <<items, n + 1, (IF n = 1 THEN acc ELSE acc \o <<",", SP>>) \o d.s>>)

json_dumps(v) ==
  CASE v.k = "int" -> SRes("", v.s)
    [] v.k = "str" -> SRes("", <<DQ>> \o Escape(v.s) \o <<DQ>>)
    [] v.k = "const" -> SRes("", <<"null">>)
    [] v.k \in {"list", "tuple"} ->
         LET d == Call("DumpItems", <<v.items, 1, <<>>>>)
         IN IF d.exc # "" THEN d ELSE SRes("", <<"[">> \o d.s \o <<"]">>)
    [] v.k = "dict" ->
         LET d == Call("DumpItems", <<v.items, 1, <<>>>>)
         IN IF d.exc # "" THEN d ELSE SRes("", <<"{">> \o d.s \o <<"}">>)
    [] OTHER -> SRes("TypeError", <<>>)

(* ------------------------------------------------------------ json.loads *)

(* value ("," value)* "]" *)
JElems(toks, i, acc) ==
  LET e == Call("JValue", <<toks, i>>)
  IN IF ~e.ok THEN PFail
     ELSE IF IsPunct(toks, e.i, ",") THEN Call("JElems", <<toks, e.i + 1, Append(acc, e.v)>>)
     ELSE IF IsPunct(toks, e.i, "]") THEN PRes(TRUE, Node("list", <<>>, Append(acc, e.v)), e.i + 1)
     ELSE PFail

(* string ":" value ("," string ":" value)* "}" *)
JPairs(toks, i, acc) ==
  IF i > Len(toks) \/ ~IsPunct(toks, i + 1, ":") THEN PFail
  ELSE IF toks[i].t # "str" THEN PFail
  ELSE
    LET v == Call("JValue", <<toks, i + 2>>)
        k == Node("str", toks[i].s, <<>>)
    IN IF ~v.ok THEN PFail
       ELSE IF IsPunct(toks, v.i, ",") THEN Call("JPairs", <<toks, v.i + 1, DictPut(acc, k, v.v)>>)
       ELSE IF IsPunct(toks, v.i, "}") THEN PRes(TRUE, Node("dict", <<>>, DictPut(acc, k, v.v)), v.i + 1)
       ELSE PFail

JValue(toks, i) ==
  IF i > Len(toks) THEN PFail
  ELSE IF toks[i].t = "str" THEN PRes(TRUE, Node("str", toks[i].s, <<>>), i + 1)
  ELSE IF toks[i].t = "num" THEN PRes(TRUE, Node("int", toks[i].s, <<>>), i + 1)
  ELSE IF toks[i].t = "name" THEN
    IF toks[i].s = <<"true">> THEN PRes(TRUE, Node("const", <<"True">>, <<>>), i + 1)
    ELSE IF toks[i].s = <<"null">> THEN PRes(TRUE, Node("const", <<"None">>, <<>>), i + 1)
    ELSE PFail
  ELSE IF IsPunct(toks, i, "[") THEN
    IF IsPunct(toks, i + 1, "]") THEN PRes(TRUE, Node("list", <<>>, <<>>), i + 2)
    ELSE Call("JElems", <<toks, i + 1, <<>>>>)
  ELSE IF IsPunct(toks, i, "{") THEN
    IF IsPunct(toks, i + 1, "}") THEN PRes(TRUE, Node("dict", <<>>, <<>>), i + 2)
    ELSE Call("JPairs", <<toks, i + 1, <<>>>>)
  ELSE PFail

json_loads(s) ==
  LET toks == Lex(s, 1, {DQ}, FALSE)
      e == Call("JValue", <<toks, 1>>)
  IN IF e.ok /\ e.i > Len(toks) THEN CRes("", e.v) ELSE CRes("JSONDecodeError", NoNode)

(* ------------------------------------------- main.py: the two validators *)
(* src/main.py:7-21 *)
StripQuotes(json_str) ==
  LET stripped == Strip(json_str)
  IN IF stripped # <<>> /\ Head(stripped) = SQ /\ stripped[Len(stripped)] = SQ
     THEN SubSeq(stripped, 2, Len(stripped) - 1)
     ELSE stripped

preprocess_json_string(json_str) ==
  LET obj == Call("literal_eval", <<StripQuotes(json_str)>>)
      dumped == IF obj.exc # "" THEN SRes(obj.exc, <<>>) ELSE Call("json_dumps", <<obj.v>>)
  IN IF dumped.exc = "" THEN dumped
     ELSE IF FirstHandler(dumped.exc, <<{"ValueError", "SyntaxError"}>>) = 1
          THEN SRes("ValueError", <<>>)
     ELSE dumped

Call(f, a) ==
  CASE f = "PyExpr" -> PyExpr(a[1], a[2])
    [] f = "PyElems" -> PyElems(a[1], a[2], a[3], a[4])
    [] f = "PyPairs" -> PyPairs(a[1], a[2], a[3])
    [] f = "ast_parse" -> ast_parse(a[1])
    [] f = "Convert" -> Convert(a[1])
    [] f = "ConvElems" -> ConvElems(a[1], a[2], a[3], a[4])
    [] f = "ConvPairs" -> ConvPairs(a[1], a[2], a[3])
    [] f = "literal_eval" -> literal_eval(a[1])
    [] f = "json_dumps" -> json_dumps(a[1])
    [] f = "DumpItems" -> DumpItems(a[1], a[2], a[3])
    [] f = "JValue" -> JValue(a[1], a[2])
    [] f = "JElems" -> JElems(a[1], a[2], a[3])
    [] f = "JPairs" -> JPairs(a[1], a[2], a[3])
    [] f = "json_loads" -> json_loads(a[1])
    [] f = "preprocess_json_string" -> preprocess_json_string(a[1])

Outcome(exc, valid, msg) == [exc |-> exc, valid |-> valid, msg |-> msg]

(* src/main.py:23-38; msg is the message up to its first colon *)
is_valid_json(json_str) ==
  IF json_str.none \/ json_str.s = <<>> THEN Outcome("", FALSE, "Empty string")
  ELSE
    LET p == Call("preprocess_json_string", <<json_str.s>>)
        exc_ == IF p.exc # "" THEN p.exc ELSE Call("json_loads", <<p.s>>).exc
        h == FirstHandler(exc_, <<{"ValueError"}, {"JSONDecodeError"}>>)
    IN IF exc_ = "" THEN Outcome("", TRUE, "")
       ELSE IF h = 1 THEN Outcome("", FALSE, "Preprocessing error")
       ELSE IF h = 2 THEN Outcome("", FALSE, "JSON decode error")
       ELSE Outcome(exc_, FALSE, "")

(* ----------------------------------------------------------------- state *)
VARIABLES
  json_str,     \* SpecV: the argument of is_valid_json
  result,       \* SpecV: what is_valid_json returned or raised
  vpc,          \* SpecV: "input" -> "classified"
  argc,         \* len(sys.argv)
  fs,           \* the path: "missing", "unreadable" or "ok"
  header,       \* first row of the file: [kind, names]
  rows,         \* the rows after the header, as csv.reader yields them
  field_name,   \* sys.argv[2]
  pc,           \* position in main / validate_csv_json_field
  handle,       \* the file object f: "none", "open" or "closed"
  opens,        \* number of successful open() calls
  pos,          \* number of rows the reader has consumed
  line_num,     \* the loop variable of enumerate(reader, start=2)
  good_rows,
  bad_rows,
  out,          \* lines printed to standard output
  raised,       \* class of the exception raised inside the try block, or ""
  exit_status   \* -1 while running, then the status of the process

vvars == <<json_str, result, vpc>>
dvars == <<argc, fs, header, rows, field_name, pc, handle, opens, pos,
           line_num, good_rows, bad_rows, out, raised, exit_status>>
vars == <<json_str, result, vpc, argc, fs, header, rows, field_name, pc, handle,
          opens, pos, line_num, good_rows, bad_rows, out, raised, exit_status>>

(* ---------------------------------------------------------------- inputs *)
RECURSIVE Texts(_)
Texts(n) ==
  IF n = 0 THEN {<<>>}
  ELSE LET shorter == Texts(n - 1)
       IN shorter \cup {Append(s, c) : s \in {x \in shorter : Len(x) = n - 1}, c \in Alphabet}

(* longer texts of interest *)
Samples == {
  <<"{", "[", "]", "}">>,
  <<"{", "[", "1", "]", ":", "1", "}">>,
  <<"[", "{", "1", "}", "]">>,
  <<"[", SQ, DQ, SQ, "]">>,
  <<"[", SQ, "x", SQ, ",", SP, SQ, "x", SQ, "]">>,
  <<SQ, "[", DQ, "x", DQ, ",", DQ, "x", DQ, "]", SQ>>,
  <<"{", DQ, "x", DQ, ":", SP, "[", "1", ",", "null", "]", "}">>,
  <<"{", SQ, "x", SQ, ":", SP, "None", "}">>,
  <<"{", SQ, "x", SQ, ":", SP, "}">>,
  <<"[", "true", "]">>,
  <<"null">> }

Inputs == {PyStr(s) : s \in Texts(MaxLen) \cup Samples} \cup {PyNone}

Path == "t.csv"
IdCell == <<"1">>
CellValues == {<<>>, <<"[", "1", "]">>, <<"x">>, <<"{", "1", "}">>}

Row(err, cells) == [err |-> err, cells |-> cells]
RowForms ==
  {Row(TRUE, <<>>), Row(FALSE, <<>>), Row(FALSE, <<IdCell>>)}
    \cup {Row(FALSE, <<IdCell, v>>) : v \in CellValues}

RECURSIVE Files(_)
Files(n) ==
  IF n = 0 THEN {<<>>}
  ELSE LET shorter == Files(n - 1)
       IN shorter \cup {Append(f, r) : f \in {x \in shorter : Len(x) = n - 1}, r \in RowForms}

Header(kind, names) == [kind |-> kind, names |-> names]
NoHeader == Header("empty", <<>>)
BadHeader == Header("undecodable", <<>>)
Headers == {NoHeader, BadHeader, Header("row", <<"id", "data">>)}
FieldNames == {"data", "nope"}

(* ---------------------------------------------------------- printed lines *)
Line(t, n, m, v, fl, g, b) ==
  [t |-> t, n |-> n, m |-> m, v |-> v, fl |-> fl, g |-> g, b |-> b]
LUsage == Line("usage", 0, "", PyNone, <<>>, 0, 0)
LFileNotFound(path) == Line("file_not_found", 0, path, PyNone, <<>>, 0, 0)
LFieldNotFound(name, names) == Line("field_not_found", 0, name, PyNone, names, 0, 0)
LErrorProcessing(e) == Line("error_processing", 0, e, PyNone, <<>>, 0, 0)
LInvalid(n) == Line("line_invalid", n, "", PyNone, <<>>, 0, 0)
LContent(v) == Line("content", 0, "", v, <<>>, 0, 0)
LError(m) == Line("error", 0, m, PyNone, <<>>, 0, 0)
LSeparator == Line("separator", 50, "", PyNone, <<>>, 0, 0)
LSummary(g, b) == Line("summary", 0, "", PyNone, <<>>, g, b)

Block(n, v, m) == <<LInvalid(n), LContent(v), LError(m), LSeparator>>

(* --------------------------------------------------------- csv.DictReader *)
(* fieldnames: None when the file has no first row *)
DictReader_fieldnames(h) == IF h.kind = "row" THEN PyStr(h.names) ELSE PyNone

SkipRow_short(names, cells) == Len(cells) < Len(names)

(* rows that __next__ skips *)
SkipRow(names, cells) == cells = <<>>

(* index of the next row __next__ stops at, 0 when the reader is exhausted *)
RECURSIVE NextIdx(_, _, _)
NextIdx(names, rs, j) ==
  IF j > Len(rs) THEN 0
  ELSE IF ~rs[j].err /\ SkipRow(names, rs[j].cells) THEN NextIdx(names, rs, j + 1)
  ELSE j

(* row[name] of dict(zip(fieldnames, row)) with restval None *)
RowGet(names, cells, name) ==
  LET at == {n \in 1..Len(names) : names[n] = name}
  IN IF \E n \in at : n > Len(cells) THEN PyNone
     ELSE PyStr(cells[CHOOSE n \in at : \A m \in at : m <= n])

(* ------------------------------------------------ validate_csv_json_field *)
RunClauses_swapped == <<{"Exception"}, {"FileNotFoundError"}>>

RunClauses_narrow == <<{"FileNotFoundError"}, {"ValueError"}>>

(* src/main.py:76-79 *)
RunClauses == <<{"FileNotFoundError"}, {"Exception"}>>

HandlerOutput_finally(e) ==
  LET h == FirstHandler(e, RunClauses)
  IN IF h = 1 THEN <<LFileNotFound(Path), LSummary(0, 0)>>
     ELSE IF h = 2 THEN <<LErrorProcessing(e), LSummary(0, 0)>>
     ELSE <<>>

HandlerOutput(e) ==
  LET h == FirstHandler(e, RunClauses)
  IN IF h = 1 THEN <<LFileNotFound(Path)>>
     ELSE IF h = 2 THEN <<LErrorProcessing(e)>>
     ELSE <<>>

with_exit_leak(h) == h

(* leaving the with block *)
with_exit(h) == IF h = "open" THEN "closed" ELSE h

CountRow_badonly(valid, g, b) == IF ~valid THEN <<g, b + 1>> ELSE <<g, b>>

(* src/main.py:66-73 *)
CountRow(valid, g, b) == IF ~valid THEN <<g, b + 1>> ELSE <<g + 1, b>>

(* an exception leaves the try block: the with block releases the file,    *)
(* the first matching clause prints, the function returns; with no         *)
(* matching clause the exception ends the process                          *)
Raise(e) ==
  /\ raised' = e
  /\ handle' = with_exit(handle)
  /\ out' = out \o HandlerOutput(e)
  /\ pc' = "done"
  /\ exit_status' = IF FirstHandler(e, RunClauses) = 0 THEN 1 ELSE 0

(* src/main.py:82-84 *)
Usage ==
  /\ pc = "main"
  /\ argc # 3
  /\ out' = Append(out, LUsage)
  /\ exit_status' = 1
  /\ pc' = "done"
  /\ UNCHANGED <<argc, fs, header, rows, field_name, handle, opens, pos,
                 line_num, good_rows, bad_rows, raised>>
  /\ UNCHANGED vvars

(* src/main.py:86-89, 44-47 *)
Open ==
  /\ pc = "main"
  /\ argc = 3
  /\ IF fs = "missing" THEN Raise("FileNotFoundError") /\ UNCHANGED opens
     ELSE IF fs = "unreadable" THEN Raise("PermissionError") /\ UNCHANGED opens
     ELSE /\ handle' = "open"
          /\ opens' = opens + 1
          /\ pc' = "opened"
          /\ UNCHANGED <<out, raised, exit_status>>
  /\ UNCHANGED <<argc, fs, header, rows, field_name, pos, line_num, good_rows, bad_rows>>
  /\ UNCHANGED vvars

(* src/main.py:49-59 *)
ReadHeader ==
  /\ pc = "opened"
  /\ LET names == DictReader_fieldnames(header)
     IN IF header.kind = "undecodable" THEN Raise("UnicodeDecodeError")
        ELSE IF names.none THEN Raise("TypeError")
        ELSE IF \A n \in 1..Len(names.s) : names.s[n] # field_name
        THEN /\ out' = Append(out, LFieldNotFound(field_name, names.s))
             /\ handle' = with_exit(handle)
             /\ pc' = "done"
             /\ exit_status' = 0
             /\ UNCHANGED raised
        ELSE /\ pc' = "loop"
             /\ UNCHANGED <<out, handle, exit_status, raised>>
  /\ UNCHANGED <<argc, fs, header, rows, field_name, opens, pos, line_num,
                 good_rows, bad_rows>>
  /\ UNCHANGED vvars

(* src/main.py:61, the reader is exhausted: the with block ends *)
LoopEnd ==
  /\ pc = "loop"
  /\ NextIdx(header.names, rows, pos + 1) = 0
  /\ pos' = Len(rows)
  /\ handle' = with_exit(handle)
  /\ pc' = "after_with"
  /\ UNCHANGED <<argc, fs, header, rows, field_name, opens, line_num, good_rows,
                 bad_rows, out, raised, exit_status>>
  /\ UNCHANGED vvars

(* src/main.py:61, the reader fails on undecodable bytes *)
ReaderFails ==
  /\ pc = "loop"
  /\ LET j == NextIdx(header.names, rows, pos + 1)
     IN /\ j # 0
        /\ rows[j].err
        /\ pos' = j
        /\ Raise("UnicodeDecodeError")
  /\ UNCHANGED <<argc, fs, header, rows, field_name, opens, line_num, good_rows, bad_rows>>
  /\ UNCHANGED vvars

(* src/main.py:61-73, one iteration *)
ProcessRow ==
  /\ pc = "loop"
  /\ LET j == NextIdx(header.names, rows, pos + 1)
     IN /\ j # 0
        /\ ~rows[j].err
        /\ pos' = j
        /\ line_num' = line_num + 1
        /\ LET v == RowGet(header.names, rows[j].cells, field_name)
               o == is_valid_json(v)
               c == CountRow(o.valid, good_rows, bad_rows)
           IN IF o.exc # "" THEN Raise(o.exc) /\ UNCHANGED <<good_rows, bad_rows>>
              ELSE /\ good_rows' = c[1]
                   /\ bad_rows' = c[2]
                   /\ out' = IF ~o.valid THEN out \o Block(line_num', v, o.msg) ELSE out
                   /\ UNCHANGED <<pc, handle, raised, exit_status>>
  /\ UNCHANGED <<argc, fs, header, rows, field_name, opens>>
  /\ UNCHANGED vvars

(* src/main.py:75, then main returns *)
PrintSummary ==
  /\ pc = "after_with"
  /\ out' = Append(out, LSummary(good_rows, bad_rows))
  /\ pc' = "done"
  /\ exit_status' = 0
  /\ UNCHANGED <<argc, fs, header, rows, field_name, handle, opens, pos,
                 line_num, good_rows, bad_rows, raised>>
  /\ UNCHANGED vvars

Init ==
  /\ json_str = PyNone
  /\ result = Outcome("", FALSE, "")
  /\ vpc = "off"
  /\ argc \in {2, 3, 4}
  /\ fs \in {"missing", "unreadable", "ok"}
  /\ header \in Headers
  /\ rows \in Files(MaxRows)
  /\ field_name \in FieldNames
  /\ (argc # 3 \/ fs # "ok") => (header = NoHeader /\ field_name = "data")
  /\ header.kind # "row" => rows = <<>>
  /\ pc = "main"
  /\ handle = "none"
  /\ opens = 0
  /\ pos = 0
  /\ line_num = 1
  /\ good_rows = 0
  /\ bad_rows = 0
  /\ out = <<>>
  /\ raised = ""
  /\ exit_status = -1

Next == Usage \/ Open \/ ReadHeader \/ LoopEnd \/ ReaderFails \/ ProcessRow \/ PrintSummary

Spec == Init /\ [][Next]_vars

(* ------------------------------------------- is_valid_json on every text *)
Classify ==
  /\ vpc = "input"
  /\ result' = is_valid_json(json_str)
  /\ vpc' = "classified"
  /\ UNCHANGED json_str
  /\ UNCHANGED dvars

InitV ==
  /\ json_str \in Inputs
  /\ result = Outcome("", FALSE, "")
  /\ vpc = "input"
  /\ argc = 3
  /\ fs = "ok"
  /\ header = NoHeader
  /\ rows = <<>>
  /\ field_name = "data"
  /\ pc = "off"
  /\ handle = "none"
  /\ opens = 0
  /\ pos = 0
  /\ line_num = 1
  /\ good_rows = 0
  /\ bad_rows = 0
  /\ out = <<>>
  /\ raised = ""
  /\ exit_status = -1

NextV == Classify

SpecV == InitV /\ [][NextV]_vars

(* ------------------------------------------------------------ properties *)
RunEnded == pc = "done" /\ argc = 3
Count(tags) == Cardinality({n \in 1..Len(out) : out[n].t \in tags})
LastLine == out[Len(out)]
ErrorTags == {"file_not_found", "field_not_found", "error_processing"}
FieldAbsent == header.kind = "row" /\ \A n \in 1..Len(header.names) : header.names[n] # field_name

(* the next row of the file that is not an empty line, 0 when none is left *)
RECURSIVE NextDataRow(_, _)
NextDataRow(rs, j) ==
  IF j > Len(rs) THEN 0
  ELSE IF ~rs[j].err /\ rs[j].cells = <<>> THEN NextDataRow(rs, j + 1)
  ELSE j

(* rows among the first n that carry cells *)
DataRows(rs, n) == Cardinality({j \in 1..n : ~rs[j].err /\ rs[j].cells # <<>>})

(* the value neither normalizes nor parses *)
FailsToParse(v) ==
  \/ v.none
  \/ v.s = <<>>
  \/ preprocess_json_string(v.s).exc # ""
  \/ json_loads(preprocess_json_string(v.s).s).exc # ""

(* C1: a row whose field value fails to normalize or parse is reported     *)
(* invalid, bad_rows grows by one and the loop goes on to the next row;    *)
(* the run does not end with an exception because of a field value.        *)
C1_NoEscalation ==
  [][LET j == NextDataRow(rows, pos + 1)
     IN (/\ pc = "loop"
         /\ j # 0
         /\ ~rows[j].err
         /\ FailsToParse(RowGet(header.names, rows[j].cells, field_name)))
        => (pc' = "loop" /\ bad_rows' = bad_rows + 1 /\ raised' = "")]_vars

(* C2 as stated: a finished run printed exactly one summary line, as its   *)
(* last line, unless the file is missing or the field is absent, and then  *)
(* it printed exactly one error line and no summary.                       *)
C2_SummaryUnlessMissing ==
  RunEnded =>
    IF fs = "missing" \/ (fs = "ok" /\ FieldAbsent)
    THEN Count(ErrorTags) = 1 /\ Len(out) = 1 /\ Count({"summary"}) = 0
    ELSE Count({"summary"}) = 1 /\ LastLine.t = "summary"

(* C2 amended: a finished run printed exactly one summary line, as its     *)
(* last line, unless the file is missing, the field is absent or an        *)
(* exception was caught; then it printed exactly one error line, as its    *)
(* last line, and no summary.                                              *)
C2_SummaryUnlessError ==
  RunEnded =>
    IF fs = "missing" \/ (fs = "ok" /\ FieldAbsent) \/ raised # ""
    THEN Count(ErrorTags) = 1 /\ LastLine.t \in ErrorTags /\ Count({"summary"}) = 0
    ELSE Count({"summary"}) = 1 /\ LastLine.t = "summary" /\ Count(ErrorTags) = 0

C2_Witness == RunEnded /\ LastLine.t = "summary" /\ Len(out) > 1

(* C3: between iterations good_rows + bad_rows is the number of data rows  *)
(* consumed; the counters start at 0 and never decrease; an iteration adds *)
(* one to bad_rows when is_valid_json reports invalid and one to good_rows *)
(* otherwise; the summary prints the final counts.                         *)
C3_Counting ==
  /\ [](/\ pc \in {"main", "opened"} => good_rows = 0 /\ bad_rows = 0
        /\ pc \in {"loop", "after_with"} => good_rows + bad_rows = DataRows(rows, pos)
        /\ Count({"summary"}) > 0 =>
             /\ LastLine = LSummary(good_rows, bad_rows)
             /\ good_rows + bad_rows = DataRows(rows, Len(rows)))
  /\ [][/\ good_rows' >= good_rows
        /\ bad_rows' >= bad_rows
        /\ (pc = "loop" /\ pc' = "loop") =>
             LET v == RowGet(header.names, rows[pos'].cells, field_name)
             IN IF is_valid_json(v).valid
                THEN good_rows' = good_rows + 1 /\ bad_rows' = bad_rows
                ELSE bad_rows' = bad_rows + 1 /\ good_rows' = good_rows]_vars

C3_Witness == pc = "done" /\ Count({"summary"}) = 1 /\ good_rows > 0 /\ bad_rows > 0

IsStrictJSON(s) == json_loads(s).exc = ""

(* C4: is_valid_json returns (True, "") for every non-empty strict-JSON    *)
(* text.                                                                   *)
C4_StrictJsonValid ==
  (vpc = "classified" /\ ~json_str.none /\ json_str.s # <<>> /\ IsStrictJSON(json_str.s))
    => result = Outcome("", TRUE, "")

(* C5: when the literal parse fails the outcome is (False, "Preprocessing  *)
(* error: ..."); when it succeeds and the strict parse of the normalized   *)
(* form fails the outcome is (False, "JSON decode error: ...").            *)
C5_FailureTags ==
  (vpc = "classified" /\ ~json_str.none /\ json_str.s # <<>>) =>
    LET lit == literal_eval(StripQuotes(json_str.s))
        norm == json_dumps(lit.v)
    IN /\ lit.exc # "" => result = Outcome("", FALSE, "Preprocessing error")
       /\ (lit.exc = "" /\ norm.exc = "" /\ json_loads(norm.s).exc # "")
            => result = Outcome("", FALSE, "JSON decode error")

(* C6 as stated: when the path does not exist or cannot be opened the run  *)
(* prints exactly the file-not-found line and processes no row.            *)
C6_NotFoundOrUnreadable ==
  (RunEnded /\ fs \in {"missing", "unreadable"}) =>
    out = <<LFileNotFound(Path)>> /\ pos = 0 /\ good_rows = 0 /\ bad_rows = 0

(* C6 amended: when the path does not exist the run prints exactly the     *)
(* file-not-found line; when it exists but cannot be opened the run prints *)
(* exactly one "Error processing file" line; either way no row is          *)
(* processed and no summary is printed.                                    *)
C6_NotFoundOnlyWhenMissing ==
  /\ (RunEnded /\ fs = "missing") => out = <<LFileNotFound(Path)>>
  /\ (RunEnded /\ fs = "unreadable") => out = <<LErrorProcessing("PermissionError")>>
  /\ (RunEnded /\ fs # "ok") =>
       pos = 0 /\ good_rows = 0 /\ bad_rows = 0 /\ opens = 0 /\ exit_status = 0

C6_Witness == RunEnded /\ fs = "missing" /\ out = <<LFileNotFound(Path)>>

(* C7: for every file that opens and whose first row can be read, when     *)
(* field_name is not among the header's field names the run prints exactly *)
(* the field-not-found line with the header fields and validates no row.   *)
C7_FieldNotFound ==
  (RunEnded /\ fs = "ok" /\ header.kind # "undecodable"
     /\ \A n \in 1..Len(header.names) : header.names[n] # field_name) =>
    /\ out = <<LFieldNotFound(field_name, header.names)>>
    /\ good_rows = 0 /\ bad_rows = 0 /\ pos = 0

(* C8: an exception raised in the try block is caught and, unless it is    *)
(* FileNotFoundError, reported as one "Error processing file" line; the    *)
(* process exits with status 0, and exits with a non-zero status exactly   *)
(* for a wrong argument count, before any file is opened.                  *)
C8_CaughtInRun ==
  pc = "done" =>
    /\ exit_status = (IF argc # 3 THEN 1 ELSE 0)
    /\ argc # 3 => opens = 0 /\ handle = "none" /\ out = <<LUsage>>
    /\ raised \notin {"", "FileNotFoundError"} =>
         LastLine = LErrorProcessing(raised) /\ Count({"error_processing"}) = 1

C8_Witness ==
  pc = "done" /\ raised \in {"TypeError", "UnicodeDecodeError"} /\ pos > 0 /\ exit_status = 0

(* C9: the file is opened at most once and is closed whenever control has  *)
(* left the with block: before the summary is printed, after the early     *)
(* return on a missing field and after any exception.                      *)
C9_HandleReleased ==
  /\ opens <= 1
  /\ handle = "open" => pc \in {"opened", "loop"}
  /\ pc \in {"after_with", "done"} => handle = (IF opens = 1 THEN "closed" ELSE "none")
  /\ Count({"summary"}) > 0 => handle = "closed"

C9_Witness == pc = "done" /\ handle = "closed" /\ raised # "" /\ line_num > 1

(* C10: a row with cells but without the target field is not skipped and   *)
(* does not end the run: its value is None, the verdict is (False, "Empty  *)
(* string"), the diagnostic block carries its line number, bad_rows grows  *)
(* by one and the loop goes on.                                            *)
C10_ShortRow ==
  [][LET j == NextDataRow(rows, pos + 1)
     IN (/\ pc = "loop"
         /\ j # 0
         /\ ~rows[j].err
         /\ \A n \in 1..Len(header.names) :
              header.names[n] = field_name => Len(rows[j].cells) < n)
        => /\ pc' = "loop"
           /\ pos' = j
           /\ bad_rows' = bad_rows + 1
           /\ good_rows' = good_rows
           /\ out' = out \o Block(line_num + 1, PyNone, "Empty string")]_vars

C10_Witness ==
  /\ pc = "loop"
  /\ bad_rows > 0
  /\ \E n \in 1..Len(out) : out[n] = LContent(PyNone)

====
